---- MODULE Spec2Model ----
(***************************************************************************)
(* Model of src/main.py: the StockData service (quote cache + fetcher,     *)
(* batch refresh, news aggregation with fallback and pagination) and the   *)
(* Flask endpoints that drive it.                                          *)
(*                                                                         *)
(* Units.  Raw upstream prices are integers in thousandths (mills), so     *)
(* 1004 is 1.004.  Values rounded by round(x, 2) are integers in           *)
(* hundredths (cents), so 200 is 2.00.  change_percent is kept in          *)
(* hundredths of a percent, so 9960 is 99.60.  Wall-clock time is in       *)
(* whole seconds.                                                          *)
(***************************************************************************)
EXTENDS Integers, Sequences, FiniteSets, TLC

(* ------------------------------ bounds -------------------------------- *)

\* Number of watchlist symbols tracked by the model (the source lists 5).
NumSymbols == 2

\* Number of clock advances in one behaviour.
MaxTicks == 2

(* --------------------------- program constants ------------------------ *)

ALL_SYMBOLS == <<"RDDT", "TSLA", "UBER", "COIN", "CADL">>

\* WATCHLIST, cut to its first NumSymbols entries (order kept).
WATCHLIST == SubSeq(ALL_SYMBOLS, 1, NumSymbols)

\* self.cache_timeout
cache_timeout == 300

\* Seconds in a day: timedelta normalises to (days, seconds, microseconds)
\* with 0 <= seconds < 86400, and .seconds reads the middle component only.
SECONDS_PER_DAY == 86400

\* Clock advances the environment may make between two steps.
TickSizes == {150, SECONDS_PER_DAY}

\* Python's None.
None == [tag |-> "None"]

\* Non-finite float64 results of a division by zero that does not raise
\* (x / 0.0 and 0.0 / 0.0), kept as integers outside every finite range.
Inf == 999999999
NaN == 999999998

\* What change / previous_close does when previous_close is 0.0: a numpy
\* float64 (what pandas' .iloc hands back) yields inf or nan with a
\* warning, a plain Python float raises ZeroDivisionError.  Which one the
\* operands are is decided outside the source, so both outcomes are kept.
ZeroDivModes == {"raise", "nonfinite"}

VARIABLES
    now,            \* datetime.now(), seconds
    ticks,          \* clock advances made so far
    cache,          \* StockData.cache: symbol -> <<result, cached_time>>
    prices,         \* StockData.prices: symbol -> current
    last_update,    \* StockData.last_update: symbol -> time
    pc,             \* position of the request being handled
    handler,        \* which endpoint is being handled
    idx,            \* loop index into WATCHLIST
    call,           \* the most recent get_real_time_price call, as observed
    prices_detail,  \* get_all_data's local dict
    response,       \* body of the last JSON response
    api_key,        \* whether NEWS_API_KEY is set (to a non-empty value)
    news_call,      \* the most recent get_all_news_flat call, as observed
    news_response   \* body of the last /api/news/flat response

newsVars == <<api_key, news_call, news_response>>

vars == <<now, ticks, cache, prices, last_update, pc, handler, idx, call,
          prices_detail, response, api_key, news_call, news_response>>

(* ------------------------------ helpers ------------------------------- *)

\* Put that rebinds the dict to a single entry.
Put_Rebind(d, k, v) == [x \in {k} |-> v]

\* d[k] = v on a Python dict.
Put(d, k, v) == [x \in DOMAIN d \cup {k} |-> IF x = k THEN v ELSE d[x]]

EmptyDict == [x \in {} |-> None]

\* Python truthiness of a value that is None or a non-empty dict.
Truthy(x) == x # None

\* timedelta(seconds = d).seconds
TimedeltaSeconds(d) == d % SECONDS_PER_DAY

\* round(n / d, 0) for d > 0, round-half-even.
RoundDiv(n, d) ==
    LET q == n \div d
        r == n % d
    IN  IF 2 * r < d THEN q
        ELSE IF 2 * r > d THEN q + 1
        ELSE IF q % 2 = 0 THEN q ELSE q + 1

\* round(x, 2): mills -> cents.
Round2(m) == RoundDiv(m, 10)

(* ------------------------- upstream provider -------------------------- *)

\* What yf.Ticker(symbol).history(...) / .info can hand back.  closes and
\* volumes are the 'Close' and 'Volume' columns (mills / shares, a volume of
\* -1 standing for NaN); previousClose and regularMarketPreviousClose are
\* the info fields, 0 standing for a missing, None or zero (falsy) value.
Quote(closes, volumes, pc1, pc2) ==
    [kind |-> "data", closes |-> closes, volumes |-> volumes,
     previousClose |-> pc1, regularMarketPreviousClose |-> pc2]

Upstream ==
    { [kind |-> "raise"],
      Quote(<<>>, <<>>, 0, 0),
      Quote(<<1000, 2000>>, <<5, 7>>, 0, 0),
      Quote(<<2000>>, <<9>>, 1004, 0),
      Quote(<<2500>>, <<-1>>, 0, 0) }

(* ------------------------ get_real_time_price ------------------------- *)

\* IsFresh with the comparison turned round.
IsFresh_Inverted(cached_time) ==
    TimedeltaSeconds(now - cached_time) > cache_timeout

\* Line 33: (datetime.now() - cached_time).seconds < self.cache_timeout
IsFresh(cached_time) ==
    TimedeltaSeconds(now - cached_time) < cache_timeout

\* Lines 31-34: the cache-hit test.
CacheHit(symbol) ==
    symbol \in DOMAIN cache /\ IsFresh(cache[symbol][2])

\* Line 42: info.get('previousClose') or info.get('regularMarketPreviousClose')
InfoPreviousClose(up) ==
    IF up.previousClose # 0 THEN up.previousClose
    ELSE up.regularMarketPreviousClose

\* Lines 41-45: previous close in mills, unrounded when the provider gave it.
PreviousClose(up) ==
    LET n == Len(up.closes)
        current_price == Round2(up.closes[n])
        info == InfoPreviousClose(up)
    IN  IF info # 0 THEN info
        ELSE IF n > 1 THEN 10 * Round2(up.closes[n - 1])
        ELSE 10 * current_price

\* Line 48: round((change / previous_close) * 100, 2), previous_close # 0.
ChangePercent(change, previous_close) ==
    RoundDiv(change * 100000, previous_close)

\* Lines 40-56: the fetch path after the provider answered with a non-empty
\* series.  [ok |-> FALSE] is an exception raised on the way.
BuildResult(up, zd) ==
    LET n == Len(up.closes)
        current_price == Round2(up.closes[n])
        previous_close == PreviousClose(up)
        change == Round2(10 * current_price - previous_close)
        volume == up.volumes[n]
    IN  IF previous_close = 0 /\ zd = "raise" THEN [ok |-> FALSE]
        ELSE IF volume < 0 THEN [ok |-> FALSE]
        ELSE [ok |-> TRUE,
              result |->
                [current |-> current_price,
                 previous_close |-> Round2(previous_close),
                 change |-> change,
                 change_percent |->
                     IF previous_close # 0
                     THEN ChangePercent(change, previous_close)
                     ELSE IF change = 0 THEN NaN ELSE Inf,
                 volume |-> volume]]

\* Lines 28-65.  The outcome of one call: what it returns, the cache it
\* leaves, and whether the provider was called.
get_real_time_price(symbol, up, zd) ==
    IF CacheHit(symbol)
    THEN [ret |-> cache[symbol][1], cache |-> cache, fetched |-> FALSE]
    ELSE IF up.kind = "raise"
    THEN [ret |-> None, cache |-> cache, fetched |-> TRUE]
    ELSE IF up.closes = <<>>
    THEN [ret |-> None, cache |-> cache, fetched |-> TRUE]
    ELSE LET b == BuildResult(up, zd)
         IN  IF b.ok
             THEN [ret |-> b.result,
                   cache |-> Put(cache, symbol, <<b.result, now>>),
                   fetched |-> TRUE]
             ELSE [ret |-> None, cache |-> cache, fetched |-> TRUE]

\* Lines 81-87: the zero-valued record.
DefaultRecord ==
    [current |-> 0, previous_close |-> 0, change |-> 0,
     change_percent |-> 0, volume |-> 0]

\* get_price_change that hands the failure through.
get_price_change_NoDefault(symbol, up, zd) ==
    LET g == get_real_time_price(symbol, up, zd)
    IN  [ret |-> g.ret, cache |-> g.cache, fetched |-> g.fetched,
         inner |-> g.ret]

\* Lines 75-87.
get_price_change(symbol, up, zd) ==
    LET g == get_real_time_price(symbol, up, zd)
    IN  [ret |-> IF Truthy(g.ret) THEN g.ret ELSE DefaultRecord,
         cache |-> g.cache, fetched |-> g.fetched, inner |-> g.ret]

(* ------------------------------ requests ------------------------------ *)

\* Whether the provider answer up makes line 48 divide by zero.
DividesByZero(up) ==
    up.kind = "data" /\ up.closes # <<>> /\ PreviousClose(up) = 0

\* The inputs of one provider call: the answer and, where line 48 divides
\* by zero, how the division resolves (it matters nowhere else).
Inputs(U) ==
    {in \in U \X ZeroDivModes : in[2] = "raise" \/ DividesByZero(in[1])}

\* No call observed yet (or since the last response).
NoCall == [symbol |-> "", fetched |-> FALSE, ret |-> None, at |-> 0,
           had_entry |-> FALSE, via |-> "none"]

\* What one get_real_time_price call looked like from outside: its
\* argument, whether the provider was called, what it returned, when it
\* ran, and whether the symbol had a cache entry beforehand.
Observe(symbol, g_fetched, g_ret, via) ==
    [symbol |-> symbol, fetched |-> g_fetched, ret |-> g_ret, at |-> now,
     had_entry |-> symbol \in DOMAIN cache, via |-> via]

NoResponse == [endpoint |-> "none"]

NoNewsCall == [path |-> "none"]

\* UpdatedPrices that writes a zero price for a failed symbol.
UpdatedPrices_ZeroOnFailure(symbol, price_data) ==
    IF Truthy(price_data.ret)
    THEN Put(prices, symbol, price_data.ret.current)
    ELSE Put(prices, symbol, 0)

\* Lines 71-72: self.prices after one iteration of update_prices.
UpdatedPrices(symbol, price_data) ==
    IF Truthy(price_data.ret)
    THEN Put(prices, symbol, price_data.ret.current)
    ELSE prices

\* Lines 71-73: self.last_update after one iteration of update_prices.
UpdatedLastUpdate(symbol, price_data) ==
    IF Truthy(price_data.ret)
    THEN Put(last_update, symbol, now)
    ELSE last_update

Init ==
    /\ now = 0
    /\ ticks = 0
    /\ cache = EmptyDict
    /\ prices = EmptyDict
    /\ last_update = EmptyDict
    /\ pc = "idle"
    /\ handler = "none"
    /\ idx = 1
    /\ call = NoCall
    /\ prices_detail = EmptyDict
    /\ response = NoResponse
    /\ api_key = FALSE
    /\ news_call = NoNewsCall
    /\ news_response = NoResponse

\* The wall clock moves on: by any step between requests, by less than
\* the freshness window while a request is being served.
Tick ==
    /\ ticks < MaxTicks
    /\ \E d \in TickSizes :
         /\ pc = "idle" \/ d < cache_timeout
         /\ now' = now + d
    /\ ticks' = ticks + 1
    /\ UNCHANGED <<cache, prices, last_update, pc, handler, idx, call,
                   prices_detail, response,
                   newsVars>>

\* GET /api/prices arrives (line 288 is about to run).
StartPrices ==
    /\ pc = "idle"
    /\ pc' = "update"
    /\ handler' = "prices"
    /\ idx' = 1
    /\ call' = NoCall
    /\ prices_detail' = EmptyDict
    /\ response' = NoResponse
    /\ UNCHANGED <<now, ticks, cache, prices, last_update,
                   newsVars>>

\* GET /api/all-data arrives (line 298 is about to run).
StartAllData ==
    /\ pc = "idle"
    /\ pc' = "update"
    /\ handler' = "all-data"
    /\ idx' = 1
    /\ call' = NoCall
    /\ prices_detail' = EmptyDict
    /\ response' = NoResponse
    /\ UNCHANGED <<now, ticks, cache, prices, last_update,
                   newsVars>>

\* Lines 69-73: one iteration of update_prices' loop.
update_prices ==
    /\ pc = "update"
    /\ idx <= Len(WATCHLIST)
    /\ \E in \in Inputs(Upstream) :
         LET symbol == WATCHLIST[idx]
             price_data == get_real_time_price(symbol, in[1], in[2])
         IN  /\ cache' = price_data.cache
             /\ prices' = UpdatedPrices(symbol, price_data)
             /\ last_update' = UpdatedLastUpdate(symbol, price_data)
             /\ call' = Observe(symbol, price_data.fetched, price_data.ret,
                                "update_prices")
    /\ idx' = idx + 1
    /\ UNCHANGED <<now, ticks, pc, handler, prices_detail, response,
                   newsVars>>

\* Lines 289-293: get_prices answers once update_prices has returned.
get_prices ==
    /\ pc = "update"
    /\ handler = "prices"
    /\ idx > Len(WATCHLIST)
    /\ response' = [endpoint |-> "prices", prices |-> prices,
                    last_update |-> last_update]
    /\ pc' = "idle"
    /\ idx' = 1
    /\ call' = NoCall
    /\ UNCHANGED <<now, ticks, cache, prices, last_update, handler,
                   prices_detail,
                   newsVars>>

\* Lines 300-301: get_all_data moves on to its own loop.
BeginDetail ==
    /\ pc = "update"
    /\ handler = "all-data"
    /\ idx > Len(WATCHLIST)
    /\ pc' = "detail"
    /\ idx' = 1
    /\ call' = NoCall
    /\ prices_detail' = EmptyDict
    /\ UNCHANGED <<now, ticks, cache, prices, last_update, handler, response,
                   newsVars>>

\* Lines 301-302: one iteration of get_all_data's loop.
DetailStep ==
    /\ pc = "detail"
    /\ idx <= Len(WATCHLIST)
    /\ \E in \in Inputs(Upstream) :
         LET symbol == WATCHLIST[idx]
             g == get_price_change(symbol, in[1], in[2])
         IN  /\ cache' = g.cache
             /\ prices_detail' = Put(prices_detail, symbol, g.ret)
             /\ call' = Observe(symbol, g.fetched, g.inner,
                                "get_price_change")
    /\ idx' = idx + 1
    /\ UNCHANGED <<now, ticks, prices, last_update, pc, handler, response,
                   newsVars>>

\* Lines 304-308: get_all_data answers.
get_all_data ==
    /\ pc = "detail"
    /\ idx > Len(WATCHLIST)
    /\ response' = [endpoint |-> "all-data", prices |-> prices_detail,
                    last_update |-> last_update]
    /\ pc' = "idle"
    /\ idx' = 1
    /\ call' = NoCall
    /\ UNCHANGED <<now, ticks, cache, prices, last_update, handler,
                   prices_detail,
                   newsVars>>

Next ==
    \/ Tick
    \/ StartPrices
    \/ StartAllData
    \/ update_prices
    \/ get_prices
    \/ BeginDetail
    \/ DetailStep
    \/ get_all_data

Spec == Init /\ [][Next]_vars

(* --------------------- direct calls of the fetcher -------------------- *)

\* A wider range of provider answers: every series of at most two closes
\* over RichPrices, with and without either info field.
RichPrices == {0, 1500}

RichCloses ==
    {<<>>} \cup {<<c>> : c \in RichPrices}
           \cup {<<c, d>> : c \in RichPrices, d \in RichPrices}

RichVolumes(closes) == [i \in 1..Len(closes) |-> 6 + i]

UpstreamRich ==
    { [kind |-> "raise"], Quote(<<2500>>, <<-1>>, 0, 0) }
    \cup { Quote(cl, RichVolumes(cl), p1, p2) :
             cl \in RichCloses, p1 \in {0, 1004}, p2 \in {0, 4} }

\* data_service.get_real_time_price(symbol) called on its own.
FetchCall ==
    /\ pc = "idle"
    /\ \E symbol \in {WATCHLIST[i] : i \in 1..Len(WATCHLIST)},
          in \in Inputs(UpstreamRich) :
         LET g == get_real_time_price(symbol, in[1], in[2])
         IN  /\ cache' = g.cache
             /\ call' = Observe(symbol, g.fetched, g.ret, "direct")
    /\ UNCHANGED <<now, ticks, prices, last_update, pc, handler, idx,
                   prices_detail, response, newsVars>>

NextFetch ==
    \/ Tick
    \/ FetchCall

SpecFetch == Init /\ [][NextFetch]_vars

(* ------------------------------- news --------------------------------- *)

\* Largest page number and per_page requested of get_all_news_flat.
MaxPage == 3
MaxPerPage == 7

\* Line 314: per_page of the /api/news/flat endpoint.
PER_PAGE == 10

\* Line 144: the summary cut.
SUMMARY_MAX == 150

Min(a, b) == IF a < b THEN a ELSE b

\* Lines 161-210: real_news_sources as built, in source order.  Each
\* timestamp is (datetime.now().timestamp() - 3600 * k) * 1000.
real_news_sources ==
    [k \in 1..6 |->
        [title |-> <<"Tesla", "Reddit", "Uber", "Coinbase", "Trump",
                     "Candel">>[k],
         source |-> <<"Reuters", "CNBC", "Bloomberg", "CoinDesk",
                      "Financial Times", "BioPharma Dive">>[k],
         sentiment |-> IF k = 5 THEN "neutral" ELSE "positive",
         timestamp |-> (now - 3600 * k) * 1000]]

\* Lines 229-260: mock_news as built, in source order.
mock_news ==
    [k \in 1..3 |->
        [title |-> <<"Tesla", "Reddit", "Uber">>[k],
         source |-> <<"Reuters-cn", "CNBC", "Bloomberg-cn">>[k],
         sentiment |-> "positive",
         timestamp |-> (now - 3600 * k) * 1000]]

\* list.sort(key=lambda x: x['timestamp'], reverse=True): a stable
\* insertion of each element after the elements whose key is not smaller.
RECURSIVE InsertDesc(_, _)
InsertDesc(sorted, x) ==
    IF sorted = <<>> THEN <<x>>
    ELSE IF Head(sorted).timestamp >= x.timestamp
         THEN <<Head(sorted)>> \o InsertDesc(Tail(sorted), x)
         ELSE <<x>> \o sorted

RECURSIVE SortDesc(_)
SortDesc(list) ==
    IF list = <<>> THEN <<>>
    ELSE InsertDesc(SortDesc(SubSeq(list, 1, Len(list) - 1)), list[Len(list)])

\* PageStart counting pages from zero.
PageStart_FromZero(page, per_page) == page * per_page

\* Lines 214-216 (and 263-265): start = (page - 1) * per_page.
PageStart(page, per_page) == (page - 1) * per_page

\* Lines 213-221 (and 262-270): sort, then slice [start:end].
Paginate(list, page, per_page) ==
    LET sorted == SortDesc(list)
        total_count == Len(sorted)
        start == PageStart(page, per_page)
        end == Min(start + per_page, total_count)
    IN  IF start >= total_count THEN <<>>
        ELSE SubSeq(sorted, start + 1, end)

\* Lines 227-270.
get_mock_news(page, per_page) == Paginate(mock_news, page, per_page)

\* A raw provider article: its title and url ("" when empty or missing),
\* the length of its description, and whether reading it raises (a null
\* title or description, an unparsable publishedAt).
Article(title, url, desc_len, raises) ==
    [title |-> title, url |-> url, desc_len |-> desc_len, raises |-> raises]

\* What requests.get(...) / raise_for_status() / response.json() end in:
\* an exception (network error, timeout, non-2xx status, invalid JSON) or
\* a decoded body with its status field and article list.
Body(status, articles) ==
    [kind |-> "json", status |-> status, articles |-> articles]

ProviderOutcomes ==
    { [kind |-> "raise"],
      Body("error", <<Article("A", "u-a", 20, FALSE)>>),
      Body("ok", <<>>),
      Body("ok", <<Article("", "u-b", 20, FALSE),
                   Article("[Removed]", "u-c", 0, FALSE),
                   Article("D", "", 5, FALSE)>>),
      Body("ok", <<Article("E", "u-e", 0, TRUE),
                   Article("F", "u-f", 200, FALSE)>>),
      Body("ok", <<Article("G", "u-g", 0, FALSE),
                   Article("H", "u-h", 151, FALSE),
                   Article("I", "u-i", 150, FALSE)>>) }

\* The try statement of lines 128-156 has no handler in the source, so
\* what an exception inside it does is not fixed by the source: it is
\* either swallowed per item or reaches the handler of line 223.
ItemErrorModes == {"skip", "propagate"}

\* Lines 143-145: length of the summary of a description of length d
\* (the placeholder of line 143 has 6 characters).
SummaryLength(d) ==
    IF d = 0 THEN 6
    ELSE IF d > SUMMARY_MAX THEN SUMMARY_MAX + 3
    ELSE d

\* Lines 133-134: the items the loop drops.
Discarded(item) ==
    item.title = "" \/ item.title = "[Removed]" \/ item.url = ""

\* Lines 147-156.
Normalize(item) ==
    [title |-> item.title, url |-> item.url,
     summary_len |-> SummaryLength(item.desc_len),
     sentiment |-> "positive"]

\* Lines 126-158: the loop over data['articles'][:per_page].
RECURSIVE ConvertArticles(_)
ConvertArticles(items) ==
    IF items = <<>> THEN <<>>
    ELSE IF Head(items).raises \/ Discarded(Head(items))
         THEN ConvertArticles(Tail(items))
         ELSE <<Normalize(Head(items))>> \o ConvertArticles(Tail(items))

AnyRaises(items) == \E i \in 1..Len(items) : items[i].raises

\* The inputs of one provider call: the outcome and, where an article
\* raises, what the exception does (it matters nowhere else).
NewsInputs ==
    {in \in ProviderOutcomes \X ItemErrorModes :
        \/ in[2] = "skip"
        \/ in[1].kind = "json" /\ AnyRaises(in[1].articles)}

\* Lines 89-225.  path names the branch that produced the result.
get_all_news_flat(page, per_page, prov, mode) ==
    IF ~api_key
    THEN [path |-> "mock", ret |-> get_mock_news(page, per_page)]
    ELSE IF prov.kind = "raise"
    THEN [path |-> "except", ret |-> <<>>]
    ELSE IF prov.status = "ok" /\ prov.articles # <<>>
    THEN LET items == SubSeq(prov.articles, 1,
                             Min(per_page, Len(prov.articles)))
         IN  IF AnyRaises(items) /\ mode = "propagate"
             THEN [path |-> "except", ret |-> <<>>]
             ELSE [path |-> "provider", ret |-> ConvertArticles(items)]
    ELSE [path |-> "fallback",
          ret |-> Paginate(real_news_sources, page, per_page)]

NewsObservation(page, per_page, prov, mode, r) ==
    [page |-> page, per_page |-> per_page, provider |-> prov,
     mode |-> mode, path |-> r.path, ret |-> r.ret, at |-> now]

\* The environment of the process: NEWS_API_KEY set or not, and the wall
\* clock at some reading.
InitNews ==
    /\ now \in {0} \cup TickSizes
    /\ ticks = 0
    /\ cache = EmptyDict
    /\ prices = EmptyDict
    /\ last_update = EmptyDict
    /\ pc = "idle"
    /\ handler = "none"
    /\ idx = 1
    /\ call = NoCall
    /\ prices_detail = EmptyDict
    /\ response = NoResponse
    /\ api_key \in BOOLEAN
    /\ news_call = NoNewsCall
    /\ news_response = NoResponse

\* data_service.get_all_news_flat(page, per_page) called on its own.
NewsCall ==
    /\ pc = "idle"
    /\ \E page \in 1..MaxPage, per_page \in 1..MaxPerPage,
          in \in NewsInputs :
         LET r == get_all_news_flat(page, per_page, in[1], in[2])
         IN  news_call' = NewsObservation(page, per_page, in[1], in[2], r)
    /\ news_response' = NoResponse
    /\ UNCHANGED <<now, ticks, cache, prices, last_update, pc, handler, idx,
                   call, prices_detail, response, api_key>>

\* Lines 310-323: GET /api/news/flat[/<page>].
get_flat_news ==
    /\ pc = "idle"
    /\ \E page \in 1..MaxPage, in \in NewsInputs :
         LET per_page == PER_PAGE
             r == get_all_news_flat(page, per_page, in[1], in[2])
         IN  /\ news_call' = NewsObservation(page, per_page, in[1], in[2], r)
             /\ news_response' =
                    [endpoint |-> "news", news |-> r.ret, page |-> page,
                     per_page |-> per_page,
                     has_more |-> (Len(r.ret) = per_page)]
    /\ UNCHANGED <<now, ticks, cache, prices, last_update, pc, handler, idx,
                   call, prices_detail, response, api_key>>

NextNews ==
    \/ NewsCall
    \/ get_flat_news

SpecNews == InitNews /\ [][NextNews]_vars

(* ------------------------------ properties ---------------------------- *)

WatchSet == {WATCHLIST[i] : i \in 1..Len(WATCHLIST)}

\* A step that runs get_real_time_price (from either loop, or directly):
\* it leaves a new observation in call.  (A direct call that repeats the
\* previous one in every respect changes nothing and is a stuttering step.)
IsCallStep == call' # call /\ call'.via # "none"

\* The age of the cache entry of symbol is below the freshness window.
TrulyFresh(symbol) ==
    symbol \in DOMAIN cache /\ now - cache[symbol][2] < cache_timeout

\* C1: a get_real_time_price call for a symbol whose cache entry is
\* younger than the freshness window does not call the provider, returns
\* the cached record and leaves the cache as it was.
C1_FreshEntryServed ==
    [][(IsCallStep /\ TrulyFresh(call'.symbol))
         => /\ ~call'.fetched
            /\ call'.ret = cache[call'.symbol][1]
            /\ cache' = cache]_vars

\* C1 witness: a call served from an entry that had aged since its capture.
C1_Witness ==
    /\ call.via = "update_prices"
    /\ ~call.fetched
    /\ call.symbol \in DOMAIN cache
    /\ call.at > cache[call.symbol][2]
    /\ call.ret = cache[call.symbol][1]

\* C2: every get_real_time_price call for a symbol with no cache entry, or
\* with an entry whose age has reached the freshness window (however old),
\* calls the provider.
C2_StaleEntryRefetched ==
    [][(IsCallStep /\ ~TrulyFresh(call'.symbol)) => call'.fetched]_vars

\* C3: when a get_real_time_price call reaches the provider and the fetch
\* succeeds, the symbol's cache entry afterwards is the returned record
\* paired with the time of the call, and every other symbol's entry is
\* what it was.
C3_SuccessfulFetchStored ==
    [][(IsCallStep /\ call'.fetched /\ Truthy(call'.ret))
         => /\ DOMAIN cache' = DOMAIN cache \cup {call'.symbol}
            /\ cache'[call'.symbol] = <<call'.ret, now>>
            /\ \A other \in DOMAIN cache \ {call'.symbol} :
                   cache'[other] = cache[other]]_vars

\* C3 witness: a successful fetch replaced an older entry while another
\* symbol's entry stayed in the cache.
C3_Witness ==
    /\ call.fetched
    /\ Truthy(call.ret)
    /\ call.had_entry
    /\ cache[call.symbol] = <<call.ret, call.at>>
    /\ \E other \in DOMAIN cache \ {call.symbol} : cache[other][2] < call.at

\* C4: a get_real_time_price call whose fetch fails returns None and
\* leaves the whole cache as it was, and no record with a previous close
\* of zero is ever in the cache.
C4_FailedFetchLeavesCache ==
    [][IsCallStep
         => /\ (call'.fetched /\ ~Truthy(call'.ret)) => cache' = cache
            /\ \A s \in DOMAIN cache' : cache'[s][1].previous_close # 0]_vars

\* The relation C5 asks of a record's own fields (cents, and hundredths
\* of a percent).
Consistent(r) ==
    /\ r.change = r.current - r.previous_close
    /\ r.previous_close # 0
         => r.change_percent = RoundDiv(r.change * 10000, r.previous_close)

\* C5: every record get_real_time_price returns or caches satisfies
\* change = round(current - previous_close, 2) and
\* change_percent = round(change / previous_close * 100, 2) on its own
\* fields.
C5_RecordConsistent ==
    /\ Truthy(call.ret) => Consistent(call.ret)
    /\ \A s \in DOMAIN cache : Consistent(cache[s][1])

\* C6: get_price_change returns the zero-valued record when
\* get_real_time_price returns None and the record it returned otherwise,
\* so the /api/all-data response holds one record for every watchlist
\* symbol.
C6_QuoteOrDefault ==
    [][/\ (IsCallStep /\ call'.via = "get_price_change")
            => /\ call'.symbol \in DOMAIN prices_detail'
               /\ prices_detail'[call'.symbol] =
                     IF Truthy(call'.ret) THEN call'.ret ELSE DefaultRecord
       /\ response'.endpoint = "all-data"
            => /\ DOMAIN response'.prices = WatchSet
               /\ \A s \in WatchSet : response'.prices[s] # None]_vars

\* C6 witness: an /api/all-data response with the zero-valued record for
\* one symbol and a fetched record for another.
C6_Witness ==
    /\ response.endpoint = "all-data"
    /\ \E s \in WatchSet : response.prices[s] = DefaultRecord
    /\ \E s \in WatchSet : response.prices[s] # DefaultRecord

\* d1 and d2 agree on key k: both lack it or both hold the same value.
SameAt(d1, d2, k) ==
    /\ k \in DOMAIN d1 <=> k \in DOMAIN d2
    /\ k \in DOMAIN d1 => d1[k] = d2[k]

\* C7: update_prices calls get_real_time_price for the watchlist symbols
\* in order; a returned record sets prices[symbol] to its current price and
\* last_update[symbol] to the call time; a None leaves both as they were;
\* either way the loop goes on to the next symbol.
C7_RefreshAll ==
    [][/\ (pc = "update" /\ idx' = idx + 1)
            => /\ call'.via = "update_prices"
               /\ call'.symbol = WATCHLIST[idx]
               /\ pc' = "update"
               /\ IF Truthy(call'.ret)
                  THEN /\ call'.symbol \in DOMAIN prices'
                       /\ prices'[call'.symbol] = call'.ret.current
                       /\ call'.symbol \in DOMAIN last_update'
                       /\ last_update'[call'.symbol] = now
                  ELSE /\ SameAt(prices', prices, call'.symbol)
                       /\ SameAt(last_update', last_update, call'.symbol)
               /\ \A o \in WatchSet \ {call'.symbol} :
                      SameAt(prices', prices, o)
                        /\ SameAt(last_update', last_update, o)
       /\ (pc = "update" /\ idx <= Len(WATCHLIST) /\ ~Truthy(call.ret))
            => ENABLED update_prices
       /\ (pc = "update" /\ pc' # "update") => idx = Len(WATCHLIST) + 1]_vars

\* C7 witness: the call for the first symbol failed, the symbol kept the
\* price and timestamp of an earlier refresh, and the loop is about to
\* call for the second symbol.
C7_Witness ==
    /\ pc = "update"
    /\ idx = 2
    /\ call.via = "update_prices"
    /\ ~Truthy(call.ret)
    /\ call.symbol \in DOMAIN prices
    /\ last_update[call.symbol] < call.at
    /\ ENABLED update_prices

\* C8: the /api/prices response holds a price for every watchlist symbol.
C8_PricesForWholeWatchlist ==
    response.endpoint = "prices" => DOMAIN response.prices = WatchSet

\* The provider call or the reading of its answer failed.
ProviderFailed(c) ==
    \/ c.provider.kind = "raise"
    \/ c.provider.status # "ok"
    \/ c.provider.articles = <<>>
    \/ AnyRaises(SubSeq(c.provider.articles, 1,
                        Min(c.per_page, Len(c.provider.articles))))

\* C9: with a credential configured, a failed provider call or a failure
\* while reading its answer makes get_all_news_flat return the requested
\* page of the static fallback list.
C9_ProviderFailureFallsBack ==
    (news_call.path # "none" /\ api_key /\ ProviderFailed(news_call))
        => news_call.ret =
               Paginate(real_news_sources, news_call.page, news_call.per_page)

\* The static list a fallback answer is cut from.
StaticList(c) == IF c.path = "mock" THEN mock_news ELSE real_news_sources

\* Number of items of list that are newer than x.
NewerThan(list, x) ==
    Cardinality({j \in 1..Len(list) : list[j].timestamp > x.timestamp})

\* How often item x occurs on pages 1, 2, ... of list cut per_page at a
\* time (Len(list) pages reach past the end of the list).
Occurrences(list, per_page, x) ==
    Cardinality({pi \in (1..Len(list)) \X (1..per_page) :
        LET pg == Paginate(list, pi[1], per_page)
        IN  pi[2] <= Len(pg) /\ pg[pi[2]] = x})

\* C10: on the fallback paths the result is the items at positions
\* [start, end) of the static list in descending timestamp order, with
\* start = (page-1)*per_page and end = min(start+per_page, total), empty
\* when start >= total; every item turns up exactly once over the pages;
\* and /api/news/flat on the 6-item list answers page 1 with all 6 items
\* and has_more false, page 2 with an empty list.
C10_FallbackPagination ==
    /\ news_call.path \in {"mock", "fallback"} =>
         LET list == StaticList(news_call)
             total == Len(list)
             start == (news_call.page - 1) * news_call.per_page
             ret == news_call.ret
         IN  /\ Len(ret) = IF start >= total THEN 0
                           ELSE Min(news_call.per_page, total - start)
             /\ \A i \in 1..Len(ret) :
                    /\ \E j \in 1..total : list[j] = ret[i]
                    /\ NewerThan(list, ret[i]) = start + i - 1
             /\ \A j \in 1..total :
                    Occurrences(list, news_call.per_page, list[j]) = 1
    /\ (news_response.endpoint = "news" /\ news_call.path = "fallback") =>
         /\ news_response.per_page = PER_PAGE
         /\ news_response.page = 1 =>
              Len(news_response.news) = 6 /\ ~news_response.has_more
         /\ news_response.page = 2 =>
              news_response.news = <<>> /\ ~news_response.has_more

\* C10 witness: a short last page of the 6-item list (page 2 of 4 per
\* page holds the two oldest items).
C10_Witness ==
    /\ news_call.path = "fallback"
    /\ news_call.page = 2
    /\ news_call.per_page = 4
    /\ Len(news_call.ret) = 2
    /\ news_call.ret[2].title = "Candel"

====
